---------------------------- MODULE Spec2Model ----------------------------
(***************************************************************************)
(* Model of CounterweightStack<T> (src/src/counterweight-stack.ts): a LIFO *)
(* stack whose pop is gated by a rule table given at construction.         *)
(*                                                                         *)
(* Elements are JavaScript values: objects {type, value} with a reference  *)
(* identity (ref), or the primitive undefined.  Rule objects live in a     *)
(* heap so that the two copies the constructor can make (structuredClone,  *)
(* or the spread fallback that shares the rule objects with the caller)    *)
(* are told apart.                                                         *)
(***************************************************************************)
EXTENDS Integers, Sequences, FiniteSets, TLC

(* ------------------------------ bounds --------------------------------- *)
\* most pushes that may be outstanding (pushed and never returned by a pop)
MaxPending == 2
\* most mutations the caller applies to its own rule array / rule objects
MaxMutations == 1

(* ------------------------------ values --------------------------------- *)
\* the primitive undefined: also what pop/peek return for "absent"
undefined == [type |-> "undefined", value |-> "", ref |-> 0]

\* a caller-made object {type, value}; ref is its reference identity
Obj(t, v, r) == [type |-> t, value |-> v, ref |-> r]

beginToken == Obj("KEYWORD", "begin", 1)
endToken == Obj("KEYWORD", "end", 1)
endDotToken == Obj("KEYWORD", "end.", 1)
ifToken == Obj("KEYWORD", "if", 1)
thenToken == Obj("KEYWORD", "then", 1)
someOtherToken == Obj("IDENTIFIER", "myVar", 1)
\* a second object with the same content as beginToken
beginToken2 == Obj("KEYWORD", "begin", 2)

\* deepEqual(a, b) of objects-deep-compare: structural, ignores identity
deepEqual(a, b) == a.type = b.type /\ a.value = b.value

\* structuredClone of one element: a fresh object (ref 0 is never a caller's
\* reference) with the same content; a primitive is returned as is
cloneElement(e) == IF e = undefined THEN undefined ELSE [e EXCEPT !.ref = 0]

Rule(m, cws) == [mainElement |-> m, counterweights |-> cws]

cloneRule(r) ==
  Rule(cloneElement(r.mainElement),
       [i \in 1..Len(r.counterweights) |-> cloneElement(r.counterweights[i])])

\* myRules of example.ts
myRules == << Rule(beginToken, <<endToken, endDotToken>>),
              Rule(ifToken, <<thenToken>>) >>
\* T = Token | undefined; two rules with deep-equal mainElement for begin,
\* and two for undefined
shadowRules == << Rule(beginToken, <<endToken>>),
                  Rule(beginToken2, <<thenToken>>),
                  Rule(undefined, <<endToken>>),
                  Rule(undefined, <<thenToken>>) >>

\* the rule arrays a caller constructs the stack with
RuleTables == { myRules, shadowRules }

\* arguments of push, and of pop
PushItems == { beginToken, beginToken2, ifToken, someOtherToken, undefined }
Attempts == { endToken, endDotToken, thenToken, beginToken, undefined }
\* arguments of compareTop
CompareItems == { beginToken, someOtherToken, undefined }
\* arguments of push when two stacks are driven side by side
TwinPushItems == { beginToken, ifToken, someOtherToken }

\* what the caller may write into its rule objects after construction
MutMains == { someOtherToken }
MutCounterweights == { <<beginToken>> }
NewRules == { Rule(someOtherToken, <<endToken>>) }

(* ------------------------------ heap ----------------------------------- *)
CallerRef(i) == [owner |-> "caller", n |-> i]
StackRef(i) == [owner |-> "stack", n |-> i]

\* the rule table an array of rule references denotes
RuleTable(refs, heap) == [i \in 1..Len(refs) |-> heap[refs[i]]]

(* --------------------------- the class --------------------------------- *)
\* Array.prototype.find: first index whose rule matches, 0 when none
findRule(rs, main) ==
  IF \E i \in 1..Len(rs) : deepEqual(rs[i].mainElement, main)
  THEN CHOOSE i \in 1..Len(rs) :
         /\ deepEqual(rs[i].mainElement, main)
         /\ \A j \in 1..(i-1) : ~deepEqual(rs[j].mainElement, main)
  ELSE 0

\* mutant: an element without a rule may be popped with anything
isValidCounterweight_noRuleOk(rs, main, potentialCounterweight) ==
  LET i == findRule(rs, main) IN
  IF i = 0 THEN TRUE
  ELSE \E c \in 1..Len(rs[i].counterweights) :
          deepEqual(rs[i].counterweights[c], potentialCounterweight)

isValidCounterweight(rs, main, potentialCounterweight) ==
  LET i == findRule(rs, main) IN
  IF i = 0 THEN FALSE
  ELSE \E c \in 1..Len(rs[i].counterweights) :
          deepEqual(rs[i].counterweights[c], potentialCounterweight)

isEmpty(its) == Len(its) = 0

size(its) == Len(its)

\* mutant: the first element instead of the last
peek_bottom(its) == IF isEmpty(its) THEN undefined ELSE its[1]

peek(its) == IF isEmpty(its) THEN undefined ELSE its[Len(its)]

\* mutant: unshift instead of push
push_unshift(its, item) == <<item>> \o its

push(its, item) == Append(its, item)

\* mutant: Array.prototype.shift
arrayPop_shift(its) ==
  IF Len(its) = 0 THEN [items |-> its, ret |-> undefined]
  ELSE [items |-> SubSeq(its, 2, Len(its)), ret |-> its[1]]

\* Array.prototype.pop: the array without its last element, and that element
arrayPop(its) ==
  IF Len(its) = 0 THEN [items |-> its, ret |-> undefined]
  ELSE [items |-> SubSeq(its, 1, Len(its) - 1), ret |-> its[Len(its)]]

\* mutant: the empty-stack path hands the attempt back
pop_echo(its, rs, counterweightAttempt) ==
  IF isEmpty(its) THEN [items |-> its, ret |-> counterweightAttempt]
  ELSE LET topElement == peek(its) IN
       IF topElement = undefined THEN [items |-> its, ret |-> undefined]
       ELSE IF isValidCounterweight(rs, topElement, counterweightAttempt)
            THEN arrayPop(its)
            ELSE [items |-> its, ret |-> undefined]

\* mutant: the attempt may counterweigh any element of the stack
pop_anyElement(its, rs, counterweightAttempt) ==
  IF isEmpty(its) THEN [items |-> its, ret |-> undefined]
  ELSE LET topElement == peek(its) IN
       IF topElement = undefined THEN [items |-> its, ret |-> undefined]
       ELSE IF \E p \in 1..Len(its) : isValidCounterweight(rs, its[p], counterweightAttempt)
            THEN arrayPop(its)
            ELSE [items |-> its, ret |-> undefined]

\* mutant: without the check of an undefined top
pop_noGuard(its, rs, counterweightAttempt) ==
  IF isEmpty(its) THEN [items |-> its, ret |-> undefined]
  ELSE LET topElement == peek(its) IN
       IF isValidCounterweight(rs, topElement, counterweightAttempt)
       THEN arrayPop(its)
       ELSE [items |-> its, ret |-> undefined]

pop(its, rs, counterweightAttempt) ==
  IF isEmpty(its) THEN [items |-> its, ret |-> undefined]
  ELSE LET topElement == peek(its) IN
       IF topElement = undefined THEN [items |-> its, ret |-> undefined]
       ELSE IF isValidCounterweight(rs, topElement, counterweightAttempt)
            THEN arrayPop(its)
            ELSE [items |-> its, ret |-> undefined]

\* mutant: clear also drops the rules
clear_all(its, refs) == [items |-> <<>>, rules |-> <<>>]

clear(its, refs) == [items |-> <<>>, rules |-> refs]

\* mutant: compares by reference (===)
compareTop_byRef(its, item) == IF isEmpty(its) THEN FALSE ELSE peek(its) = item

compareTop(its, item) == IF isEmpty(its) THEN FALSE ELSE deepEqual(peek(its), item)

\* structuredClone(rules): new rule objects StackRef(1..n) holding clones
clonedHeap(refs, heap) ==
  [r \in {StackRef(i) : i \in 1..Len(refs)} |-> cloneRule(heap[refs[r.n]])]

\* mutant: no try/catch around structuredClone
ctor_nocatch(refs, heap, cloneThrows) ==
  IF cloneThrows
  THEN [rules |-> <<>>, heap |-> heap, warned |-> FALSE, raised |-> TRUE]
  ELSE [rules |-> [i \in 1..Len(refs) |-> StackRef(i)],
        heap |-> clonedHeap(refs, heap) @@ heap,
        warned |-> FALSE, raised |-> FALSE]

\* mutant: always the spread copy, never structuredClone
ctor_shallow(refs, heap, cloneThrows) ==
  [rules |-> refs, heap |-> heap, warned |-> cloneThrows, raised |-> FALSE]

\* mutant: the catch block leaves the rule table empty
ctor_emptyFallback(refs, heap, cloneThrows) ==
  IF cloneThrows
  THEN [rules |-> <<>>, heap |-> heap, warned |-> TRUE, raised |-> FALSE]
  ELSE [rules |-> [i \in 1..Len(refs) |-> StackRef(i)],
        heap |-> clonedHeap(refs, heap) @@ heap,
        warned |-> FALSE, raised |-> FALSE]

\* constructor(rules): refs is the caller's array, heap the rule objects
ctor(refs, heap, cloneThrows) ==
  IF cloneThrows
  THEN [rules |-> refs, heap |-> heap, warned |-> TRUE, raised |-> FALSE]
  ELSE [rules |-> [i \in 1..Len(refs) |-> StackRef(i)],
        heap |-> clonedHeap(refs, heap) @@ heap,
        warned |-> FALSE, raised |-> FALSE]


\* mutant: a static field, one array for all instances
itemsOf_static(inst) == 1

\* the array this.items denotes in instance inst: one array per instance
itemsOf(inst) == inst

(* ------------------------------ state ---------------------------------- *)
VARIABLES
  pc,           \* "new" before the constructor ran, "ready" after
  callerRules,  \* the caller's rule array: references to rule objects
  ruleHeap,     \* rule objects by reference
  rules,        \* this.rules: references to rule objects
  items,        \* this.items
  warned,       \* console.warn of the constructor's fallback was emitted
  raised,       \* an exception left an operation
  lastOp,       \* the last call: name, argument and what it returned
  mutations,    \* caller mutations applied so far
  unpopped,     \* history: pushes not yet returned by a pop, oldest first
  live,         \* history: as unpopped, emptied by clear()
  pushRun,      \* history: the pushes since construction while nothing else ran
  stuck,        \* history: first (position, element) seen without a rule since the last clear()
  script,       \* history: how many calls of Scenario the calls so far are, -1 if they are not
  written,      \* history: the caller wrote to a rule object after construction
  twinItems,    \* items of a second stack, same calls, caller never mutates
  twinRules,    \* the rule table of that second stack
  twinRet       \* what the last call returned on the second stack

vars == << pc, callerRules, ruleHeap, rules, items, warned, raised, lastOp,
           mutations, unpopped, live, pushRun, stuck, script, written,
           twinItems, twinRules, twinRet >>

\* the rule table this.rules denotes now
View == RuleTable(rules, ruleHeap)

Call(op, arg, ret, num, flag) ==
  [op |-> op, arg |-> arg, ret |-> ret, num |-> num, flag |-> flag]

NoRun == [only |-> FALSE, count |-> 0, last |-> undefined]

\* s without the last occurrence of the object e
RemoveLast(s, e) ==
  IF \E i \in 1..Len(s) : s[i] = e
  THEN LET k == CHOOSE i \in 1..Len(s) : s[i] = e /\ \A j \in (i+1)..Len(s) : s[j] # e
       IN SubSeq(s, 1, k - 1) \o SubSeq(s, k + 1, Len(s))
  ELSE s

NotStuck == [pos |-> 0, elem |-> undefined, intact |-> TRUE]

\* the lowest position of its holding an element for which rs has no rule
LowestUnruled(its, rs) ==
  LET ps == { q \in 1..Len(its) : findRule(rs, its[q]) = 0 } IN
  IF ps = {} THEN NotStuck
  ELSE LET p == CHOOSE q \in ps : \A o \in ps : q <= o IN [pos |-> p, elem |-> its[p], intact |-> TRUE]

\* the history variable stuck after a step that leaves its and rs; intact
\* says that the rule table has not changed since the element was seen
Stuck(old, its, rs, sameTable) ==
  IF old.pos > 0 THEN [old EXCEPT !.intact = old.intact /\ sameTable]
  ELSE LowestUnruled(its, rs)

\* the usage example of the README, on a stack built from myRules
Scenario == << [op |-> "push", arg |-> beginToken],
               [op |-> "push", arg |-> ifToken],
               [op |-> "pop", arg |-> beginToken],
               [op |-> "pop", arg |-> thenToken],
               [op |-> "pop", arg |-> endToken] >>

\* the history variable script after the call op(arg)
Advance(n, op, arg) ==
  IF n >= 0 /\ n < Len(Scenario) /\ Scenario[n + 1] = [op |-> op, arg |-> arg]
  THEN n + 1 ELSE -1

Init ==
  /\ pc = "new"
  /\ \E t \in RuleTables :
       /\ callerRules = [i \in 1..Len(t) |-> CallerRef(i)]
       /\ ruleHeap = [r \in {CallerRef(i) : i \in 1..Len(t)} |-> t[r.n]]
  /\ rules = <<>>
  /\ items = <<>>
  /\ warned = FALSE
  /\ raised = FALSE
  /\ lastOp = Call("none", undefined, undefined, 0, FALSE)
  /\ mutations = 0
  /\ unpopped = <<>>
  /\ live = <<>>
  /\ pushRun = NoRun
  /\ stuck = NotStuck
  /\ script = -1
  /\ written = FALSE
  /\ twinItems = <<>>
  /\ twinRules = <<>>
  /\ twinRet = undefined

\* new CounterweightStack(callerRules); structuredClone throws or not
New(cloneThrows) ==
  /\ pc = "new"
  /\ LET c == ctor(callerRules, ruleHeap, cloneThrows) IN
       /\ rules' = c.rules
       /\ ruleHeap' = c.heap
       /\ warned' = c.warned
       /\ raised' = c.raised
       /\ pc' = IF c.raised THEN "new" ELSE "ready"
       /\ pushRun' = [only |-> ~c.raised, count |-> 0, last |-> undefined]
  /\ lastOp' = Call("constructor", undefined, undefined, 0, cloneThrows)
  /\ script' = IF RuleTable(callerRules, ruleHeap) = myRules THEN 0 ELSE -1
  /\ UNCHANGED << callerRules, items, mutations, unpopped, live, stuck, written >>

Ready == pc = "ready" /\ ~raised

Push(item) ==
  /\ Ready
  /\ Len(unpopped) < MaxPending
  /\ items' = push(items, item)
  /\ lastOp' = Call("push", item, undefined, 0, FALSE)
  /\ unpopped' = Append(unpopped, item)
  /\ live' = Append(live, item)
  /\ pushRun' = IF pushRun.only
                THEN [only |-> TRUE, count |-> pushRun.count + 1, last |-> item]
                ELSE NoRun
  /\ stuck' = Stuck(stuck, items', View, TRUE)
  /\ script' = Advance(script, "push", item)
  /\ UNCHANGED << pc, callerRules, ruleHeap, rules, warned, raised, mutations, written >>

Pop(counterweightAttempt) ==
  /\ Ready
  /\ LET r == pop(items, View, counterweightAttempt)
     IN /\ items' = r.items
        /\ lastOp' = Call("pop", counterweightAttempt, r.ret, 0, FALSE)
        /\ unpopped' = IF r.ret # undefined THEN RemoveLast(unpopped, r.ret) ELSE unpopped
        /\ live' = IF r.ret # undefined THEN RemoveLast(live, r.ret) ELSE live
  /\ pushRun' = NoRun
  /\ stuck' = Stuck(stuck, items', View, TRUE)
  /\ script' = Advance(script, "pop", counterweightAttempt)
  /\ UNCHANGED << pc, callerRules, ruleHeap, rules, warned, raised, mutations, written >>

Peek ==
  /\ Ready
  /\ lastOp' = Call("peek", undefined, peek(items), 0, FALSE)
  /\ UNCHANGED << pc, callerRules, ruleHeap, rules, items, warned, raised, mutations,
                  unpopped, live, pushRun, stuck, script, written >>

IsEmpty ==
  /\ Ready
  /\ lastOp' = Call("isEmpty", undefined, undefined, 0, isEmpty(items))
  /\ UNCHANGED << pc, callerRules, ruleHeap, rules, items, warned, raised, mutations,
                  unpopped, live, pushRun, stuck, script, written >>

Size ==
  /\ Ready
  /\ lastOp' = Call("size", undefined, undefined, size(items), FALSE)
  /\ UNCHANGED << pc, callerRules, ruleHeap, rules, items, warned, raised, mutations,
                  unpopped, live, pushRun, stuck, script, written >>

Clear ==
  /\ Ready
  /\ LET c == clear(items, rules)
     IN /\ items' = c.items
        /\ rules' = c.rules
  /\ stuck' = NotStuck
  /\ lastOp' = Call("clear", undefined, undefined, 0, FALSE)
  /\ live' = <<>>
  /\ pushRun' = NoRun
  /\ script' = -1
  /\ UNCHANGED << pc, callerRules, ruleHeap, warned, raised, mutations, unpopped, written >>

CompareTop(item) ==
  /\ Ready
  /\ lastOp' = Call("compareTop", item, undefined, 0, compareTop(items, item))
  /\ UNCHANGED << pc, callerRules, ruleHeap, rules, items, warned, raised, mutations,
                  unpopped, live, pushRun, stuck, script, written >>

(* -------- the caller, writing to the array and objects it passed ------- *)
Mutated(heap2, objectWrite) ==
  /\ Ready
  /\ mutations < MaxMutations
  /\ mutations' = mutations + 1
  /\ ruleHeap' = heap2
  /\ lastOp' = Call("mutate", undefined, undefined, 0, FALSE)
  /\ stuck' = Stuck(stuck, items, RuleTable(rules, heap2), RuleTable(rules, heap2) = View)
  /\ script' = -1
  /\ written' = (written \/ objectWrite)
  /\ UNCHANGED << pc, rules, items, warned, raised, unpopped, live, pushRun >>

\* myRules.push(r) with a new rule object
CallerAddRule(r) ==
  LET ref == CallerRef(Cardinality({x \in DOMAIN ruleHeap : x.owner = "caller"}) + 1) IN
  /\ Mutated((ref :> r) @@ ruleHeap, FALSE)
  /\ callerRules' = Append(callerRules, ref)

\* myRules.pop()
CallerRemoveRule ==
  /\ Len(callerRules) > 0
  /\ Mutated(ruleHeap, FALSE)
  /\ callerRules' = SubSeq(callerRules, 1, Len(callerRules) - 1)

\* myRules[0].mainElement = e
CallerSetMain(e) ==
  /\ Len(callerRules) > 0
  /\ Mutated([ruleHeap EXCEPT ![callerRules[1]].mainElement = e], TRUE)
  /\ UNCHANGED callerRules

\* myRules[0].counterweights = cws
CallerSetCounterweights(cws) ==
  /\ Len(callerRules) > 0
  /\ Mutated([ruleHeap EXCEPT ![callerRules[1]].counterweights = cws], TRUE)
  /\ UNCHANGED callerRules

\* the second stack is not used
NoTwin == UNCHANGED << twinItems, twinRules, twinRet >>

CallerMutates ==
  \/ \E r \in NewRules : CallerAddRule(r)
  \/ CallerRemoveRule
  \/ \E e \in MutMains : CallerSetMain(e)
  \/ \E cws \in MutCounterweights : CallerSetCounterweights(cws)

Next ==
  \/ \E cloneThrows \in BOOLEAN : New(cloneThrows) /\ NoTwin
  \/ \E item \in PushItems : Push(item) /\ NoTwin
  \/ \E attempt \in Attempts : Pop(attempt) /\ NoTwin
  \/ Peek /\ NoTwin
  \/ IsEmpty /\ NoTwin
  \/ Size /\ NoTwin
  \/ Clear /\ NoTwin
  \/ \E item \in CompareItems : CompareTop(item) /\ NoTwin
  \/ CallerMutates /\ NoTwin

Spec == Init /\ [][Next]_vars

(* ---- two stacks built from the same rules, driven by the same calls --- *)
(* The second stack is built with a structuredClone that succeeds and its  *)
(* caller never writes to its rules, so its rule table is the table of the  *)
(* clones the constructor made.                                             *)
NewBoth(cloneThrows) ==
  /\ New(cloneThrows)
  /\ LET c == ctor(callerRules, ruleHeap, FALSE)
     IN twinRules' = RuleTable(c.rules, c.heap)
  /\ UNCHANGED << twinItems, twinRet >>

PushBoth(item) ==
  /\ Len(twinItems) < MaxPending
  /\ Push(item)
  /\ twinItems' = push(twinItems, item)
  /\ twinRet' = undefined
  /\ UNCHANGED twinRules

PopBoth(counterweightAttempt) ==
  /\ Pop(counterweightAttempt)
  /\ LET t == pop(twinItems, twinRules, counterweightAttempt)
     IN twinItems' = t.items /\ twinRet' = t.ret
  /\ UNCHANGED twinRules

PeekBoth ==
  /\ Peek
  /\ twinRet' = peek(twinItems)
  /\ UNCHANGED << twinItems, twinRules >>

ClearBoth ==
  /\ Clear
  /\ twinItems' = clear(twinItems, twinRules).items
  /\ twinRules' = clear(twinItems, twinRules).rules
  /\ twinRet' = undefined

NextTwin ==
  \/ \E cloneThrows \in BOOLEAN : NewBoth(cloneThrows)
  \/ \E item \in TwinPushItems : PushBoth(item)
  \/ \E attempt \in Attempts : PopBoth(attempt)
  \/ PeekBoth
  \/ ClearBoth
  \/ CallerMutates /\ NoTwin

TwinSpec == Init /\ [][NextTwin]_vars

(* ---- two stacks built from the same rule list, each called on its own -- *)
(* The second stack's fields are twinItems and twinRules; its calls are     *)
(* recorded in lastOp under the names "other.push", "other.pop",            *)
(* "other.clear" and "other.peek".                                          *)

\* the elements pushed on the two stacks
PairPushItems == {beginToken, someOtherToken}

\* this.items of the first (1) or the second (2) stack
ItemsAt(cell) == IF cell = 1 THEN items ELSE twinItems

\* this.items = v in the stack whose array is cell
Store(cell, v) ==
  /\ items' = IF cell = 1 THEN v ELSE items
  /\ twinItems' = IF cell = 2 THEN v ELSE twinItems

OtherItems == ItemsAt(itemsOf(2))

\* both stacks are constructed from the caller's rule list
NewPair(cloneThrows, otherThrows) ==
  /\ New(cloneThrows)
  /\ LET c == ctor(callerRules, ruleHeap, otherThrows)
     IN twinRules' = RuleTable(c.rules, c.heap)
  /\ UNCHANGED << twinItems, twinRet >>

OtherUnchanged ==
  UNCHANGED << pc, callerRules, ruleHeap, rules, warned, raised, mutations,
               unpopped, live, pushRun, stuck, script, written >>

PushOther(item) ==
  /\ Ready
  /\ Len(OtherItems) < MaxPending
  /\ Store(itemsOf(2), push(OtherItems, item))
  /\ twinRet' = undefined
  /\ lastOp' = Call("other.push", item, undefined, 0, FALSE)
  /\ UNCHANGED twinRules
  /\ OtherUnchanged

PopOther(counterweightAttempt) ==
  /\ Ready
  /\ LET r == pop(OtherItems, twinRules, counterweightAttempt) IN
        /\ Store(itemsOf(2), r.items)
        /\ twinRet' = r.ret
        /\ lastOp' = Call("other.pop", counterweightAttempt, r.ret, 0, FALSE)
  /\ UNCHANGED twinRules
  /\ OtherUnchanged

PeekOther ==
  /\ Ready
  /\ twinRet' = peek(OtherItems)
  /\ lastOp' = Call("other.peek", undefined, peek(OtherItems), 0, FALSE)
  /\ UNCHANGED << items, twinItems, twinRules >>
  /\ OtherUnchanged

ClearOther ==
  /\ Ready
  /\ LET c == clear(OtherItems, twinRules) IN
        /\ Store(itemsOf(2), c.items)
        /\ twinRules' = c.rules
  /\ twinRet' = undefined
  /\ lastOp' = Call("other.clear", undefined, undefined, 0, FALSE)
  /\ OtherUnchanged

NextPair ==
  \/ \E cloneThrows \in BOOLEAN, otherThrows \in BOOLEAN : NewPair(cloneThrows, otherThrows)
  \/ \E item \in PairPushItems : Push(item) /\ NoTwin
  \/ \E attempt \in Attempts : Pop(attempt) /\ NoTwin
  \/ Peek /\ NoTwin
  \/ Clear /\ NoTwin
  \/ \E item \in PairPushItems : PushOther(item)
  \/ \E attempt \in Attempts : PopOther(attempt)
  \/ PeekOther
  \/ ClearOther

PairSpec == Init /\ [][NextPair]_vars

(* ============================ properties ============================== *)
\* the step just taken was a call of pop
PopStep == lastOp'.op = "pop"

\* the index in the rule table of the first rule for the top element, 0 if none
TopRule == findRule(View, items[Len(items)])

\* x is deep-equal to some element of the counterweights list of rule i
Listed(i, x) ==
  \E c \in 1..Len(View[i].counterweights) : deepEqual(View[i].counterweights[c], x)

\* the pop just taken returned the top element and shortened the stack by one
Succeeded ==
  /\ lastOp'.ret = items[Len(items)]
  /\ Len(items') = Len(items) - 1

\* the pop just taken returned absent and left the stack as it was
Rejected == lastOp'.ret = undefined /\ items' = items

\* C1: with a non-empty stack whose top element matches a rule, pop(x) returns
\* the top and decrements the size iff x is deep-equal to an element of that
\* rule's counterweights; otherwise it returns absent and changes nothing.
C1_PopIffCounterweight ==
  [][ (PopStep /\ items # <<>> /\ TopRule # 0)
        => IF Listed(TopRule, lastOp'.arg) THEN Succeeded ELSE Rejected ]_vars

\* C2: when no rule's mainElement is deep-equal to the top element, pop(x)
\* returns absent for every x and the stack is unchanged.
C2_NoRuleNoPop ==
  [][ (PopStep /\ items # <<>> /\ TopRule = 0) => Rejected ]_vars

\* a pop was just rejected with an element on top that no rule names
C2_Witness ==
  /\ lastOp.op = "pop" /\ lastOp.ret = undefined
  /\ items # <<>> /\ items[Len(items)] # undefined
  /\ TopRule = 0

\* C3: pop(x) on an empty stack returns absent for every x and the size stays 0.
C3_PopEmpty ==
  [][ (PopStep /\ items = <<>>) => (lastOp'.ret = undefined /\ Len(items') = 0) ]_vars

\* pop was just called on the empty stack with a defined attempt
C3_Witness ==
  /\ lastOp.op = "pop" /\ lastOp.arg # undefined
  /\ items = <<>> /\ unpopped = <<>>

\* the element recorded in stuck is where it was seen, and a pop called while
\* it is the top returned absent
StuckStays ==
  /\ Len(items') >= stuck.pos
  /\ items'[stuck.pos] = stuck.elem
  /\ (PopStep /\ Len(items) = stuck.pos) => lastOp'.ret = undefined

\* C4 as stated: once an element matching no rule is on the stack at some
\* position, every step other than clear() leaves it at that position, and
\* every pop called while it is the top returns absent.
C4_StuckForever ==
  [][ (stuck.pos > 0 /\ lastOp'.op # "clear") => StuckStays ]_vars

\* C4 amended: the same, in continuations without clear() in which the stack's
\* rule table does not change either (after the constructor's shallow-copy
\* fallback a caller's write to a shared rule object changes it).
C4_StuckWhileRulesKept ==
  [][ (stuck.pos > 0 /\ stuck.intact /\ lastOp'.op # "clear") => StuckStays ]_vars

\* a pop was just rejected with the stuck element on top, another element
\* below it, after the caller wrote to its rules
C4_Witness ==
  /\ stuck.pos = 2 /\ stuck.intact /\ Len(items) = 2
  /\ lastOp.op = "pop" /\ lastOp.ret = undefined /\ lastOp.arg # undefined
  /\ mutations > 0

\* rs holds two rules whose mainElement is deep-equal to e
Shadowed(rs, e) ==
  \E i, j \in 1..Len(rs) :
     i < j /\ deepEqual(rs[i].mainElement, e) /\ deepEqual(rs[j].mainElement, e)

\* C5: when two rules have deep-equal mainElement values and that element is on
\* top, pop(x) succeeds iff x is deep-equal to a counterweight of the first of
\* them; a counterweight listed only in a later duplicate is rejected.
C5_FirstRuleWins ==
  [][ (PopStep /\ items # <<>> /\ Shadowed(View, items[Len(items)]))
        => IF Listed(TopRule, lastOp'.arg) THEN Succeeded ELSE Rejected ]_vars

\* the most recently pushed element of a history h of pushes, absent if none
MostRecent(h) == IF h = <<>> THEN undefined ELSE h[Len(h)]

\* C6 as stated: what peek() returns is the most recently pushed element not
\* yet returned by a successful pop.
C6_TopIsLastUnpopped ==
  Ready => peek(items) = MostRecent(unpopped)

\* C6 amended: what peek() returns is the most recently pushed element neither
\* returned by a successful pop nor removed by clear().
C6_TopIsLastLive ==
  Ready => peek(items) = MostRecent(live)

\* an element was just pushed after a clear() that removed another one
C6_Witness ==
  /\ lastOp.op = "push" /\ items = <<lastOp.arg>>
  /\ live # <<>> /\ Len(unpopped) > Len(live)
  /\ unpopped[1] # lastOp.arg

\* C7: after pushes only on a freshly constructed stack, size() is the number
\* of pushes and peek() is the element pushed last.
C7_PushesOnly ==
  (Ready /\ pushRun.only) =>
     /\ size(items) = pushRun.count
     /\ pushRun.count > 0 => peek(items) = pushRun.last

\* two pushes of different elements and nothing else since construction
C7_Witness ==
  /\ pushRun.only /\ pushRun.count = 2 /\ lastOp.op = "push"
  /\ items[1] # items[2]

C9_CallerWritesInvisible ==
  (Ready /\ ~warned) =>
     /\ items = twinItems
     /\ lastOp.op \in {"push", "pop", "peek", "clear"} => lastOp.ret = twinRet

\* a pop succeeded that the caller's rules, as written since, would reject
C9_Witness ==
  /\ ~warned /\ mutations > 0
  /\ lastOp.op = "pop" /\ lastOp.ret # undefined /\ lastOp.ret = twinRet
  /\ ~isValidCounterweight(RuleTable(callerRules, ruleHeap), lastOp.ret, lastOp.arg)

\* C10: no call raises; pop reports each of its three rejections (empty stack,
\* no rule for the top, attempt not listed) by returning absent.
C10_NeverRaises ==
  [][ /\ ~raised'
      /\ lastOp'.op = "constructor" => pc' = "ready"
      /\ (PopStep /\ (items = <<>> \/ TopRule = 0 \/ ~Listed(TopRule, lastOp'.arg)))
            => lastOp'.ret = undefined ]_vars

\* the constructor completed although structuredClone threw
C10_Witness == lastOp.op = "constructor" /\ lastOp.flag /\ warned /\ pc = "ready"

\* C11: compareTop(item) is false on the empty stack and otherwise true iff
\* item is deep-equal to the top element, whether or not a rule exists for the
\* top; it leaves the sequence as it was.
C11_CompareTop ==
  [][ (lastOp'.op = "compareTop") =>
        /\ items' = items
        /\ lastOp'.flag = (items # <<>> /\ deepEqual(items[Len(items)], lastOp'.arg)) ]_vars

\* compareTop just returned true for an object other than the one on top
C11_Witness ==
  /\ lastOp.op = "compareTop" /\ lastOp.flag
  /\ items # <<>> /\ items[Len(items)] # lastOp.arg

\* C12: on a fresh stack with myRules, push(begin), push(if) give size 2 and
\* peek if; pop(begin) is absent and size stays 2; pop(then) returns if, size 1,
\* peek begin; pop(end) returns begin, size 0, isEmpty() true.
C12_Scenario ==
  [][ /\ (script = 1 /\ script' = 2) =>
            (size(items') = 2 /\ peek(items') = ifToken)
      /\ (script = 2 /\ script' = 3) =>
            (lastOp'.ret = undefined /\ size(items') = 2)
      /\ (script = 3 /\ script' = 4) =>
            (lastOp'.ret = ifToken /\ size(items') = 1 /\ peek(items') = beginToken)
      /\ (script = 4 /\ script' = 5) =>
            (lastOp'.ret = beginToken /\ size(items') = 0 /\ isEmpty(items')) ]_vars

\* the five calls were made and isEmpty() was called after them
C12_Witness ==
  /\ script = Len(Scenario)
  /\ lastOp.op = "isEmpty" /\ lastOp.flag

\* the attempt x is accepted for the element e under the stack's rule table
Accepted(e, x) == findRule(View, e) # 0 /\ Listed(findRule(View, e), x)

\* C13 as stated: the sequence grows only on push, by the pushed element
\* appended at the top, and every step in which size() decreases is a pop
\* whose counterweight attempt was accepted.
C13_ShrinksOnlyOnPop ==
  [][ /\ (Len(items') > Len(items)) => lastOp'.op = "push"
      /\ (lastOp'.op = "push") => items' = Append(items, lastOp'.arg)
      /\ (Len(items') < Len(items)) =>
            (PopStep /\ Accepted(items[Len(items)], lastOp'.arg)) ]_vars

\* C13 amended: the sequence grows only on push, by the pushed element
\* appended at the top, and every step in which size() decreases is either a
\* pop whose attempt was accepted, which removes one element, or a clear(),
\* which removes them all.
C13_ShrinksOnPopOrClear ==
  [][ /\ (Len(items') > Len(items)) => lastOp'.op = "push"
      /\ (lastOp'.op = "push") => items' = Append(items, lastOp'.arg)
      /\ (Len(items') < Len(items)) =>
            \/ /\ PopStep /\ Accepted(items[Len(items)], lastOp'.arg)
               /\ Len(items') = Len(items) - 1
            \/ lastOp'.op = "clear" /\ items' = <<>> ]_vars

\* clear() has just emptied a stack that held an element never popped
C13_Witness ==
  /\ lastOp.op = "clear" /\ items = <<>>
  /\ unpopped # <<>> /\ live = <<>>

\* the calls of the class's public methods
ApiCalls == {"push", "pop", "peek", "isEmpty", "size", "clear", "compareTop"}

\* C14: no call of push, pop, peek, isEmpty, size, clear or compareTop changes
\* the rule table (set, order, contents); a pop does not consume the
\* counterweight: the attempt just accepted is accepted again for an element
\* deep-equal to the one popped.
C14_RulesImmutable ==
  [][ (lastOp'.op \in ApiCalls) =>
        /\ rules' = rules /\ ruleHeap' = ruleHeap /\ View' = View
        /\ (PopStep /\ lastOp'.ret # undefined) =>
              isValidCounterweight(View', lastOp'.ret, lastOp'.arg) ]_vars

\* a pop succeeded and the new top is deep-equal to the element popped, so the
\* same attempt is accepted once more
C14_Witness ==
  /\ lastOp.op = "pop" /\ lastOp.ret # undefined
  /\ items # <<>> /\ deepEqual(items[Len(items)], lastOp.ret)
  /\ Accepted(items[Len(items)], lastOp.arg)

\* C15: a pop that returns an element removes exactly the top, a push adds
\* exactly one element at the top; every element below keeps its value and
\* its position.
C15_OnlyTopMoves ==
  [][ /\ (lastOp'.op = "push") =>
            /\ Len(items') = Len(items) + 1
            /\ \A p \in 1..Len(items) : items'[p] = items[p]
            /\ items'[Len(items')] = lastOp'.arg
      /\ (PopStep /\ lastOp'.ret # undefined) =>
            /\ items # <<>> /\ lastOp'.ret = items[Len(items)]
            /\ items' = SubSeq(items, 1, Len(items) - 1) ]_vars

\* a pop returned the top of a stack of two different elements
C15_Witness ==
  /\ lastOp.op = "pop" /\ lastOp.ret # undefined
  /\ Len(items) = 1 /\ ~deepEqual(items[1], lastOp.ret)

\* C16: peek, isEmpty, size and compareTop leave the sequence and the rule
\* table unchanged; peek returns the top element, absent when the stack is
\* empty; isEmpty is true exactly when size() is 0.
C16_QueriesReadOnly ==
  [][ (lastOp'.op \in {"peek", "isEmpty", "size", "compareTop"}) =>
        /\ items' = items /\ rules' = rules /\ ruleHeap' = ruleHeap
        /\ (lastOp'.op = "peek") =>
              lastOp'.ret = IF items = <<>> THEN undefined ELSE items[Len(items)]
        /\ (lastOp'.op = "isEmpty") => (lastOp'.flag = (size(items) = 0))
        /\ (lastOp'.op = "size") => lastOp'.num = Len(items) ]_vars

\* peek returned the top of a stack of two different elements
C16_Witness ==
  /\ lastOp.op = "peek" /\ Len(items) = 2
  /\ lastOp.ret = items[2] /\ ~deepEqual(items[1], items[2])

\* C17: the outcome of pop(x) depends only on the top element, the rule table
\* and x: it is the outcome on the stack holding the top element alone,
\* whatever lies below; an attempt accepted for an element below the top but
\* not for the top is rejected.
C17_TopDecides ==
  [][ (PopStep /\ items # <<>>) =>
        LET alone == pop(<< items[Len(items)] >>, View, lastOp'.arg) IN
        /\ lastOp'.ret = alone.ret
        /\ (items' = items) = (alone.items = << items[Len(items)] >>)
        /\ ( /\ \E p \in 1..(Len(items) - 1) : Accepted(items[p], lastOp'.arg)
             /\ ~Accepted(items[Len(items)], lastOp'.arg) ) => Rejected ]_vars

\* a pop was rejected although its attempt is accepted for the element below
C17_Witness ==
  /\ lastOp.op = "pop" /\ lastOp.ret = undefined /\ Len(items) = 2
  /\ Accepted(items[1], lastOp.arg) /\ ~Accepted(items[2], lastOp.arg)

\* C19: a pop shortens the sequence iff it returns a value that is not
\* absent; a pop that returns absent leaves the sequence as it was, also when
\* the top is a stored undefined whose rule lists the attempt.
C19_ShortenedIffReturned ==
  [][ PopStep =>
        /\ (Len(items') < Len(items)) = (lastOp'.ret # undefined)
        /\ (lastOp'.ret = undefined) => items' = items ]_vars

\* a pop kept a stored undefined on top although its rule lists the attempt
C19_Witness ==
  /\ lastOp.op = "pop" /\ lastOp.ret = undefined
  /\ items # <<>> /\ items[Len(items)] = undefined
  /\ Accepted(undefined, lastOp.arg)

\* C18: when structuredClone throws, the constructor completes with a copy
\* of the caller's array holding the caller's rule objects; while the caller
\* has written to no rule object, whatever rules it added to or removed from
\* its array, the stack holds the same items and returns the same values as
\* the stack built with a structuredClone that succeeded.  (That a write to a
\* shared rule's counterweights changes a pop's outcome is the state
\* C18_Witness.)
C18_FallbackAsDeepCopy ==
  [][ /\ (lastOp'.op = "constructor" /\ lastOp'.flag) =>
            /\ pc' = "ready" /\ ~raised' /\ warned'
            /\ rules' = callerRules /\ ruleHeap' = ruleHeap
      /\ (pc' = "ready" /\ warned' /\ ~written') =>
            /\ items' = twinItems'
            /\ lastOp'.op \in {"push", "pop", "peek", "clear"} =>
                  lastOp'.ret = twinRet' ]_vars

\* after the fallback the caller replaced the counterweights of a shared rule
\* and a pop then returned something else than on the deep-copied stack
C18_Witness ==
  /\ warned /\ written
  /\ lastOp.op = "pop" /\ lastOp.ret # twinRet
  /\ deepEqual(View[1].mainElement, twinRules[1].mainElement)
  /\ Len(View[1].counterweights) = Len(twinRules[1].counterweights)
  /\ ~deepEqual(View[1].counterweights[1], twinRules[1].counterweights[1])

\* C20: of two stacks constructed from the same caller-supplied rule list,
\* no push, pop or clear on one changes the sequence or the rule table of the
\* other, and so none of its later pop, peek or size results, however the
\* calls on the two are interleaved.
C20_Isolated ==
  [][ /\ (lastOp'.op \in {"push", "pop", "clear"}) =>
            /\ OtherItems' = OtherItems /\ twinRules' = twinRules
            /\ peek(OtherItems') = peek(OtherItems)
            /\ size(OtherItems') = size(OtherItems)
            /\ \A x \in Attempts :
                  pop(OtherItems', twinRules', x) = pop(OtherItems, twinRules, x)
      /\ (lastOp'.op \in {"other.push", "other.pop", "other.clear"}) =>
            /\ ItemsAt(itemsOf(1))' = ItemsAt(itemsOf(1))
            /\ rules' = rules /\ ruleHeap' = ruleHeap
            /\ peek(items') = peek(items)
            /\ size(items') = size(items)
            /\ \A x \in Attempts : pop(items', View', x) = pop(items, View, x) ]_vars

\* both stacks hold the caller's rule objects, the second has just popped an
\* element and the first still holds other elements
C20_Witness ==
  /\ warned
  /\ lastOp.op = "other.pop" /\ lastOp.ret # undefined
  /\ items # <<>> /\ items # twinItems

=============================================================================
